---- MODULE Spec2Model ----
(***************************************************************************)
(* Hospital appointment booking: the slot table, the appointment ledger,   *)
(* the booking conflict checks and the cancel / reschedule / delete        *)
(* handlers of src/hospital_booking/app.py over the tables of              *)
(* src/hospital_booking/models.py.                                         *)
(*                                                                         *)
(* A booking request is two steps, the checks (BookCheck) and the commit   *)
(* (BookCommit), so that concurrent requests interleave between them.      *)
(* Times are minutes since midnight, dates are day numbers, a datetime is  *)
(* date * MinutesPerDay + minutes.  A string is a sequence of tokens.      *)
(* Primary keys are opaque: a slot's id is the index of the form that      *)
(* created it, an appointment takes the lowest id no row holds.            *)
(***************************************************************************)
EXTENDS Integers, Sequences, FiniteSets, TLC

\* ------------------------------------------------------------ bounds
MaxSlots == 2
MaxAppts == 2

\* ------------------------------------------------------------ constants
MinutesPerDay == 1440
CancelWindow == 1440
FallbackDelay == 2880

\* ------------------------------------------------------------ inputs
Users == {1, 2}
Doctors == {1, 2}
Reqs == {1, 2}
Nows == {0, 1440}
None == 0

\* the add-slot forms an admin submits: <<doctor, date, start_time, end_time>>
SlotForms ==
    << <<1, 1, 600, 630>>, <<2, 1, 615, 645>>, <<1, 1, 630, 660>>, <<2, 2, 600, 630>> >>
FormIds == 1..Len(SlotForms)

Idle == [user |-> 0, doctor |-> 0, slot |-> 0, turn |-> 0]

\* slots:    the Slot table, id -> row
\* appts:    the Appointment table, a set of rows
\* inflight: the booking requests between their checks and their commit
\* last:     the outcome of the last request
\* history:  which history variable this run records: "off", "turns", "actors"
\* lastTurn: per slot, the turn number last assigned for it (history)
\* lastBy:   per appointment, the actor of its last cancel or reschedule (history)
VARIABLES slots, appts, inflight, last, history, lastTurn, lastBy
vars == <<slots, appts, inflight, last, history, lastTurn, lastBy>>

\* ------------------------------------------------------------ strings
\* date.strftime("%Y-%m-%d")
strftime_date(d) == << [tok |-> "date", val |-> d] >>

\* time.strftime("%I:%M %p")
strftime_time(t) == << [tok |-> "time12", val |-> t] >>

\* the literal " - " between the two times of Slot.time
Dash == << [tok |-> "dash", val |-> 0] >>

\* Slot(...) as add_slot builds it
NewSlot(f) ==
    [ doctor_id |-> f[1], date |-> f[2], start_time |-> f[3], end_time |-> f[4],
      day |-> strftime_date(f[2]),
      time |-> strftime_time(f[3]) \o Dash \o strftime_time(f[4]) ]

\* datetime.strptime(s, "%Y-%m-%d %I:%M %p"): the whole string must match
\* the format; anything else raises ValueError
StrptimeOk(s) ==
    /\ Len(s) = 2
    /\ s[1].tok = "date"
    /\ s[2].tok = "time12"

StrptimeValue(s) == s[1].val * MinutesPerDay + s[2].val

\* slot_time of cancel_appointment: the parsed datetime, or on ValueError
\* the fallback two days from now
SlotTime(sl, now) ==
    LET s == sl.day \o sl.time
    IN  IF StrptimeOk(s) THEN StrptimeValue(s) ELSE now + FallbackDelay

\* slot_time - datetime.now() < timedelta(hours=24)
TimeGateRefuses(sl, now) == SlotTime(sl, now) - now < CancelWindow

\* ------------------------------------------------------------ queries
\* the Slot table: the rows add_slot has stored, by id
SlotIds == DOMAIN slots

\* existing_by_user of book
ExistingByUser(u, s) ==
    { a \in appts : a.user_id = u /\ a.slot_id = s /\ a.status # "Canceled" }

\* Overlapping with the interval ends compared by <= and >=
Overlapping_Closed(u, s) ==
    { a \in appts :
        /\ a.slot_id \in SlotIds
        /\ a.user_id = u
        /\ a.status # "Canceled"
        /\ slots[a.slot_id].date = slots[s].date
        /\ \/ /\ slots[a.slot_id].start_time <= slots[s].end_time
              /\ slots[a.slot_id].end_time >= slots[s].start_time
           \/ /\ slots[s].start_time <= slots[a.slot_id].end_time
              /\ slots[s].end_time >= slots[a.slot_id].start_time }

\* overlapping of book: Appointment joined to Slot on slot_id
Overlapping(u, s) ==
    { a \in appts :
        /\ a.slot_id \in SlotIds
        /\ a.user_id = u
        /\ a.status # "Canceled"
        /\ slots[a.slot_id].date = slots[s].date
        /\ \/ /\ slots[a.slot_id].start_time < slots[s].end_time
              /\ slots[a.slot_id].end_time > slots[s].start_time
           \/ /\ slots[s].start_time < slots[a.slot_id].end_time
              /\ slots[s].end_time > slots[a.slot_id].start_time }

\* Appointment.query.filter_by(slot_id=s).count()
CountForSlot(s) == Cardinality({ a \in appts : a.slot_id = s })

\* the Appointment table without its uq_user_slot constraint
UqUserSlot_Missing(others, u, s) == FALSE

\* uq_user_slot: a row with (user_id, slot_id) beside the rows `others`;
\* a NULL user_id never conflicts
UqUserSlotViolated(others, u, s) ==
    /\ u # None
    /\ \E b \in others : b.user_id = u /\ b.slot_id = s

\* uq_doctor_slot
UqDoctorSlotViolated(sl) ==
    \E i \in SlotIds :
        /\ slots[i].doctor_id = sl.doctor_id
        /\ slots[i].date = sl.date
        /\ slots[i].start_time = sl.start_time

\* is_booked counting the appointments that are not canceled
is_booked_Active(s) == { a \in appts : a.slot_id = s /\ a.status # "Canceled" } # {}

\* Slot.is_booked: bool(self.appointments)
is_booked(s) == { a \in appts : a.slot_id = s } # {}

\* User.query.filter_by(username=name).first(); a user's name is its id
UserByName(name) == IF name \in Users THEN name ELSE None

mark_admin_update(a) ==
    [ a EXCEPT !.updated_by_admin = TRUE,
               !.user_id = IF a.user_id = None /\ UserByName(a.patient_name) # None
                           THEN UserByName(a.patient_name)
                           ELSE a.user_id ]

\* the lowest appointment id no row holds
FreshId == CHOOSE i \in 1..MaxAppts :
    /\ \A a \in appts : a.id # i
    /\ \A j \in 1..(i - 1) : \E a \in appts : a.id = j

Pending == { r \in Reqs : inflight[r] # Idle }

\* the request slot the next booking request runs in
NextReq == CHOOSE r \in Reqs \ Pending : \A q \in Reqs \ Pending : r <= q

\* ------------------------------------------------------------ initial state
Init ==
    /\ slots = << >>
    /\ appts = {}
    /\ inflight = [r \in Reqs |-> Idle]
    /\ last = "init"
    /\ history = "off"
    /\ lastTurn = [s \in FormIds |-> 0]
    /\ lastBy = [i \in 1..MaxAppts |-> "none"]

InitTurns ==
    /\ slots = << >>
    /\ appts = {}
    /\ inflight = [r \in Reqs |-> Idle]
    /\ last = "init"
    /\ history = "turns"
    /\ lastTurn = [s \in FormIds |-> 0]
    /\ lastBy = [i \in 1..MaxAppts |-> "none"]

InitActors ==
    /\ slots = << >>
    /\ appts = {}
    /\ inflight = [r \in Reqs |-> Idle]
    /\ last = "init"
    /\ history = "actors"
    /\ lastTurn = [s \in FormIds |-> 0]
    /\ lastBy = [i \in 1..MaxAppts |-> "none"]

\* the history variables after a turn number is assigned for slot s, and
\* after actor has canceled or rescheduled appointment id
TurnAssigned(s, turn) ==
    lastTurn' = IF history = "turns" THEN [lastTurn EXCEPT ![s] = turn] ELSE lastTurn

MutatedBy(id, actor) ==
    lastBy' = IF history = "actors" THEN [lastBy EXCEPT ![id] = actor] ELSE lastBy

\* ------------------------------------------------------------ actions
\* add_slot (admin), POST: the commit is not guarded, a uq_doctor_slot
\* violation ends the request in an unhandled IntegrityError
AddSlot(k) ==
    /\ Cardinality(SlotIds) < MaxSlots
    /\ IF UqDoctorSlotViolated(NewSlot(SlotForms[k]))
       THEN /\ last' = "add_slot_fault"
            /\ UNCHANGED slots
       ELSE /\ slots' = [i \in SlotIds \cup {k} |->
                            IF i = k THEN NewSlot(SlotForms[k]) ELSE slots[i]]
            /\ last' = "slot_added"
    /\ UNCHANGED <<appts, inflight, history, lastTurn, lastBy>>

\* book, POST, up to db.session.add(appt): the two checks and the turn count
BookCheck(r, u, d, s) ==
    /\ Pending # Reqs
    /\ r = NextReq
    /\ s \in SlotIds
    /\ Cardinality(appts) + Cardinality(Pending) < MaxAppts
    /\ IF ExistingByUser(u, s) # {}
       THEN /\ last' = "duplicate"
            /\ UNCHANGED inflight
       ELSE IF Overlapping(u, s) # {}
       THEN /\ last' = "overlap"
            /\ UNCHANGED inflight
       ELSE /\ inflight' = [inflight EXCEPT ![r] =
                   [user |-> u, doctor |-> d, slot |-> s, turn |-> CountForSlot(s) + 1]]
            /\ last' = "checked"
    /\ UNCHANGED <<slots, appts, history, lastTurn, lastBy>>

\* the row book adds to the session
NewAppointment(q) ==
    [ id |-> FreshId, patient_name |-> q.user, doctor_id |-> q.doctor,
      slot_id |-> q.slot, user_id |-> q.user, turn_number |-> q.turn,
      status |-> "Confirmed", updated_by_admin |-> FALSE ]

\* book, POST, db.session.commit() and its IntegrityError handler
BookCommit(r) ==
    LET q == inflight[r]
    IN  /\ q # Idle
        /\ inflight' = [inflight EXCEPT ![r] = Idle]
        /\ IF UqUserSlotViolated(appts, q.user, q.slot)
           THEN /\ last' = "slot_taken"
                /\ UNCHANGED <<appts, lastTurn, lastBy>>
           ELSE /\ appts' = appts \cup {NewAppointment(q)}
                /\ TurnAssigned(q.slot, q.turn)
                /\ last' = "booked"
                /\ UNCHANGED lastBy
        /\ UNCHANGED <<slots, history>>

\* the ownership test left out
NotOwner_Skipped(a, actor, u) == FALSE

\* the test before abort(403): a patient acting on an appointment of another
NotOwner(a, actor, u) == actor = "user" /\ a.user_id # u

\* cancel_appointment_generic
CancelGeneric(a, actor, u) ==
    IF NotOwner(a, actor, u)
    THEN /\ last' = "cancel_forbidden"
         /\ UNCHANGED <<appts, lastBy>>
    ELSE LET c == [a EXCEPT !.status = "Canceled"]
             n == IF actor = "admin" THEN mark_admin_update(c) ELSE c
         IN  /\ appts' = (appts \ {a}) \cup {n}
             /\ MutatedBy(a.id, actor)
             /\ last' = "canceled"

\* cancel_appointment (patient): the 24-hour gate, then the generic cancel
PatientCancel(u, a, now) ==
    /\ a \in appts
    /\ IF TimeGateRefuses(slots[a.slot_id], now)
       THEN /\ last' = "time_gate"
            /\ UNCHANGED <<appts, lastBy>>
       ELSE CancelGeneric(a, "user", u)
    /\ UNCHANGED <<slots, inflight, history, lastTurn>>

\* admin_cancel_appointment
AdminCancel(a) ==
    /\ a \in appts
    /\ CancelGeneric(a, "admin", None)
    /\ UNCHANGED <<slots, inflight, history, lastTurn>>

\* reschedule_appointment_generic: the commit is not guarded, a uq_user_slot
\* violation ends the request in an unhandled IntegrityError and the
\* session's change is dropped with the request
RescheduleGeneric(a, t, actor, u) ==
    IF NotOwner(a, actor, u)
    THEN /\ last' = "reschedule_forbidden"
         /\ UNCHANGED <<appts, lastTurn, lastBy>>
    ELSE LET m == [a EXCEPT !.slot_id = t,
                            !.turn_number = CountForSlot(t) + 1,
                            !.status = "Rescheduled"]
             n == IF actor = "admin" THEN mark_admin_update(m) ELSE m
         IN  IF UqUserSlotViolated(appts \ {a}, n.user_id, n.slot_id)
             THEN /\ last' = "reschedule_fault"
                  /\ UNCHANGED <<appts, lastTurn, lastBy>>
             ELSE /\ appts' = (appts \ {a}) \cup {n}
                  /\ TurnAssigned(t, n.turn_number)
                  /\ MutatedBy(a.id, actor)
                  /\ last' = "rescheduled"

\* reschedule_appointment (patient), POST
PatientReschedule(u, a, t) ==
    /\ a \in appts
    /\ t \in SlotIds
    /\ RescheduleGeneric(a, t, "user", u)
    /\ UNCHANGED <<slots, inflight, history>>

\* admin_reschedule_appointment, POST
AdminReschedule(a, t) ==
    /\ a \in appts
    /\ t \in SlotIds
    /\ RescheduleGeneric(a, t, "admin", None)
    /\ UNCHANGED <<slots, inflight, history>>

\* delete_booking (admin)
DeleteBooking(a) ==
    /\ a \in appts
    /\ appts' = appts \ {a}
    /\ MutatedBy(a.id, "none")
    /\ last' = "deleted"
    /\ UNCHANGED <<slots, inflight, history, lastTurn>>

Next ==
    \/ \E k \in FormIds : AddSlot(k)
    \/ \E r \in Reqs, u \in Users, d \in Doctors, s \in FormIds : BookCheck(r, u, d, s)
    \/ \E r \in Reqs : BookCommit(r)
    \/ \E u \in Users, a \in appts, now \in Nows : PatientCancel(u, a, now)
    \/ \E a \in appts : AdminCancel(a)
    \/ \E u \in Users, a \in appts, t \in FormIds : PatientReschedule(u, a, t)
    \/ \E a \in appts, t \in FormIds : AdminReschedule(a, t)
    \/ \E a \in appts : DeleteBooking(a)

\* the same requests, each booking sent from the form book renders for the
\* doctor: the slot is one of the doctor's slots
NextForm ==
    \/ \E k \in FormIds : AddSlot(k)
    \/ \E r \in Reqs, u \in Users, s \in SlotIds : BookCheck(r, u, slots[s].doctor_id, s)
    \/ \E r \in Reqs : BookCommit(r)
    \/ \E u \in Users, a \in appts, now \in Nows : PatientCancel(u, a, now)
    \/ \E a \in appts : AdminCancel(a)
    \/ \E u \in Users, a \in appts, t \in FormIds : PatientReschedule(u, a, t)
    \/ \E a \in appts, t \in FormIds : AdminReschedule(a, t)
    \/ \E a \in appts : DeleteBooking(a)

Spec == Init /\ [][Next]_vars

\* the runs that record the turn numbers assigned per slot
SpecTurns == InitTurns /\ [][NextForm]_vars

\* the runs that record who last canceled or rescheduled each appointment
SpecActors == InitActors /\ [][NextForm]_vars

\* the requests without the two reschedule handlers
NextNoReschedule ==
    \/ \E k \in FormIds : AddSlot(k)
    \/ \E r \in Reqs, u \in Users, d \in Doctors, s \in FormIds : BookCheck(r, u, d, s)
    \/ \E r \in Reqs : BookCommit(r)
    \/ \E u \in Users, a \in appts, now \in Nows : PatientCancel(u, a, now)
    \/ \E a \in appts : AdminCancel(a)
    \/ \E a \in appts : DeleteBooking(a)

\* the runs made of create, cancel and delete only
SpecNoReschedule == Init /\ [][NextNoReschedule]_vars

\* ------------------------------------------------------------ properties
Active(a) == a.status # "Canceled"

\* the appointments of user u on slot s
RowsOn(u, s) == { a \in appts : a.user_id = u /\ a.slot_id = s }

\* the datetime slot s starts at
SlotStart(s) == slots[s].date * MinutesPerDay + slots[s].start_time

\* the intersection test of the half-open intervals of slots e and c
Intersects(e, c) ==
    /\ slots[e].date = slots[c].date
    /\ slots[e].start_time < slots[c].end_time
    /\ slots[c].start_time < slots[e].end_time

\* request r is alone in flight and its checks were the step before: its
\* commit ends a create no other request has interleaved with
Sequential(r) == last = "checked" /\ Pending = {r}

\* the outcomes each handler ends in: a step that is not one of these is
\* no step of the handler
CheckEnded == last' \in {"duplicate", "overlap", "checked"}
CommitEnded == last' \in {"booked", "slot_taken"}
CancelEnded == last' \in {"time_gate", "cancel_forbidden", "canceled"}
RescheduleEnded == last' \in {"reschedule_forbidden", "reschedule_fault", "rescheduled"}

\* C1: at most one non-canceled appointment per (user, slot) in every state;
\* a create for a (user, slot) that holds a non-canceled appointment is
\* rejected as a duplicate by the checks, or as "slot taken" at the commit
\* when its checks ran before the other request committed, and either
\* rejection leaves the ledger as it was.
C1_OneActivePerUserSlot ==
    /\ [](\A a \in appts, b \in appts :
            (Active(a) /\ Active(b) /\ a.user_id = b.user_id /\ a.slot_id = b.slot_id)
                => a = b)
    /\ [][CheckEnded => \A r \in Reqs, u \in Users, d \in Doctors, s \in SlotIds :
            ((\E a \in RowsOn(u, s) : Active(a)) /\ BookCheck(r, u, d, s))
                => (last' = "duplicate" /\ appts' = appts /\ inflight' = inflight)]_vars
    /\ [][CommitEnded => \A r \in Reqs :
            ((\E a \in RowsOn(inflight[r].user, inflight[r].slot) : Active(a)) /\ BookCommit(r))
                => (last' = "slot_taken" /\ appts' = appts)]_vars

\* a create lost the race at its commit to the Confirmed appointment in the ledger
C1_Witness ==
    /\ last = "slot_taken"
    /\ Cardinality(appts) = 1
    /\ \A a \in appts : a.status = "Confirmed"

\* C2: a create by u for a slot c on which u has no appointment is rejected
\* as overlapping exactly when u holds a non-canceled appointment on a slot
\* of the same date whose interval intersects c's; otherwise it passes the
\* checks, and its commit, with still no appointment of u on c, adds a
\* Confirmed appointment.
C2_OverlapIff ==
    /\ [][CheckEnded => \A r \in Reqs, u \in Users, d \in Doctors, c \in SlotIds :
            (RowsOn(u, c) = {} /\ BookCheck(r, u, d, c))
                => /\ (last' = "overlap") <=>
                        (\E e \in appts : e.user_id = u /\ Active(e) /\ Intersects(e.slot_id, c))
                   /\ (last' # "overlap") =>
                        (last' = "checked" /\ inflight'[r].user = u /\ inflight'[r].slot = c)
                   /\ appts' = appts]_vars
    /\ [][CommitEnded => \A r \in Reqs :
            (inflight[r] # Idle /\ RowsOn(inflight[r].user, inflight[r].slot) = {}
                /\ BookCommit(r))
                => /\ last' = "booked"
                   /\ \E n \in appts' \ appts :
                        /\ n.user_id = inflight[r].user
                        /\ n.slot_id = inflight[r].slot
                        /\ n.status = "Confirmed"
                        /\ appts' = appts \cup {n}]_vars

\* a create was rejected as overlapping while the ledger holds one appointment,
\* Confirmed, on the 10:00-10:30 slot, and the other slot is 10:15-10:45
C2_Witness ==
    /\ last = "overlap"
    /\ SlotIds = {1, 2}
    /\ \E a \in appts : appts = {a} /\ a.slot_id = 1 /\ a.status = "Confirmed"

\* C3: every turn number assigned for a slot, by a create that runs alone
\* or by a reschedule onto the slot, is greater than the one assigned for
\* that slot before.
C3_TurnsIncrease ==
    [][/\ \A r \in Reqs :
            (BookCommit(r) /\ Sequential(r) /\ last' = "booked")
                => inflight[r].turn > lastTurn[inflight[r].slot]
       /\ \A u \in Users, a \in appts, t \in SlotIds :
            (PatientReschedule(u, a, t) /\ last' = "rescheduled" /\ t # a.slot_id)
                => CountForSlot(t) + 1 > lastTurn[t]
       /\ \A a \in appts, t \in SlotIds :
            (AdminReschedule(a, t) /\ last' = "rescheduled" /\ t # a.slot_id)
                => CountForSlot(t) + 1 > lastTurn[t]]_vars

\* C4: a create that runs alone, by a patient whose only appointments on
\* the slot are canceled, succeeds: a new Confirmed appointment with turn
\* number count + 1 joins the ledger and the canceled ones stay.
C4_RebookAfterCancel ==
    [][\A r \in Reqs :
        (/\ BookCommit(r)
         /\ Sequential(r)
         /\ RowsOn(inflight[r].user, inflight[r].slot) # {}
         /\ \A a \in RowsOn(inflight[r].user, inflight[r].slot) : ~Active(a))
            => /\ last' = "booked"
               /\ \E n \in appts' \ appts :
                    /\ n.status = "Confirmed"
                    /\ n.turn_number = CountForSlot(inflight[r].slot) + 1
                    /\ appts' = appts \cup {n}]_vars

\* C5: the owner's cancel less than 24 hours before the slot starts is
\* refused and changes nothing; an admin's cancel always cancels.
C5_TimeGate ==
    [][/\ \A u \in Users, a \in appts, now \in Nows :
            (PatientCancel(u, a, now) /\ a.user_id = u
                /\ SlotStart(a.slot_id) - now < CancelWindow)
                => (last' = "time_gate" /\ appts' = appts)
       /\ \A a \in appts :
            AdminCancel(a)
                => (last' = "canceled"
                    /\ \E n \in appts' : n.id = a.id /\ n.status = "Canceled")]_vars

\* C6: a canceled appointment, while it is in the ledger, stays Canceled on
\* its slot.
C6_CanceledStays ==
    [][\A a \in appts : a.status = "Canceled"
            => \A n \in appts' : n.id = a.id
                    => (n.status = "Canceled" /\ n.slot_id = a.slot_id)]_vars

\* C7: no create or reschedule ends in an unhandled fault.
C7_NoFault == last # "reschedule_fault"

C9_NonOwnerForbidden ==
    [][/\ CancelEnded => \A u \in Users, a \in appts, now \in Nows :
            (a.user_id # u /\ PatientCancel(u, a, now))
                => (last' = "cancel_forbidden" /\ appts' = appts)
       /\ RescheduleEnded => \A u \in Users, a \in appts, t \in SlotIds :
            (a.user_id # u /\ PatientReschedule(u, a, t))
                => (last' = "reschedule_forbidden" /\ appts' = appts)]_vars

\* a reschedule was refused as forbidden while the ledger holds one
\* appointment that is still Confirmed
C9_Witness ==
    /\ last = "reschedule_forbidden"
    /\ \E a \in appts : appts = {a} /\ a.status = "Confirmed"

\* C10: updated_by_admin is set exactly on the appointments whose last
\* cancel or reschedule was an admin's.
C10_FlagIsLastActor ==
    \A a \in appts : a.updated_by_admin <=> lastBy[a.id] = "admin"

\* C11: every appointment's doctor is the doctor of the appointment's slot.
C11_DoctorIsSlotDoctor ==
    \A a \in appts : a.doctor_id = slots[a.slot_id].doctor_id

\* C12: without reschedules, no patient holds two non-canceled appointments
\* on slots of the same date whose intervals intersect.
C12_NoOverlapHeld ==
    \A a \in appts, b \in appts :
        (a # b /\ a.user_id = b.user_id /\ Active(a) /\ Active(b))
            => ~Intersects(a.slot_id, b.slot_id)

====
